---- MODULE Spec2Model ----
(***************************************************************************)
(* ArmorClaw security hook (container/openclaw/security_hook.c).           *)
(*                                                                         *)
(* The hook is an LD_PRELOAD object that shadows the exec family, system,  *)
(* popen, socket and connect.  The model keeps the eleven static function  *)
(* pointers, the unsynchronised lazy resolution done by                    *)
(* init_real_functions(), and, for every host thread, the call it is       *)
(* executing together with what that call did: the write(2) calls it       *)
(* issued, the real functions it invoked, its return value and errno.      *)
(***************************************************************************)
EXTENDS Integers, Sequences, FiniteSets, TLC

\* ------------------------------------------------------------------ bounds
MaxCalls == 2

\* Two host threads: enough for every race on a function pointer.
Threads == 1..2

\* --------------------------------------------------------------- constants
NULL == 0
STDERR_FILENO == 2
AF_UNIX == 1
AF_INET == 2
AF_INET6 == 10
AF_NETLINK == 16
SOCK_STREAM == 1
EBADF == 9
ESOCKTNOSUPPORT == 94
ENOTCONN == 107
FirstFreeFd == 3

SECURITY_ERROR == "ArmorClaw Security: Operation blocked by security policy\n"
SecurityErrorLen == 57

\* The symbols this layer shadows, in definition order (lines 56-133).
ShadowedSymbols ==
    << "execve", "execveat", "execl", "execle", "execlp", "execvp",
       "execvpe", "system", "popen", "socket", "connect" >>

Symbols == { ShadowedSymbols[i] : i \in 1..Len(ShadowedSymbols) }

\* The address of the next-in-chain implementation of a symbol (never NULL).
RealAddr(s) == 100 + (CHOOSE i \in 1..Len(ShadowedSymbols) : ShadowedSymbols[i] = s)

\* The symbols init_real_functions() resolves, in statement order.
InitOrder == << "execve", "execveat", "system", "popen", "socket", "connect" >>

\* Symbols the next-in-chain library may lack.
MaybeMissing == { "socket" }

\* ------------------------------------------------------------------- state
VARIABLES
    real,        \* real_execve .. real_connect: the static function pointers
    resolvable,  \* the symbols dlsym(RTLD_NEXT, .) finds in this process
    inherited,   \* the descriptors the process was started with
    pc,          \* where each thread is inside its intercepted call
    call,        \* the intercepted call each thread is executing
    idx,         \* the statement of init_real_functions() a thread is at
    tmp,         \* the dlsym result a thread is about to store
    errno,       \* the thread-local errno
    errno0,      \* errno as it was when the current call was entered
    diag,        \* the write(2) calls issued by the current call
    invoked,     \* the real functions invoked by the current call
    ret,         \* the value the current call returned
    tried,       \* the symbols dlsym has been called for so far
    ncalls,      \* number of intercepted calls entered so far
    sockets      \* the descriptors the real socket() has handed out

vars == << real, resolvable, inherited, pc, call, idx, tmp, errno, errno0, diag,
           invoked, ret, tried, ncalls, sockets >>

NoCall == [fn |-> "none", path |-> "", a |-> 0, b |-> 0, c |-> 0]
\* No value yet: the call has not returned (no return value of the layer).
NoRet == 0 - 2

\* ------------------------------------------------------------ host inputs
Paths == { "/bin/sh", "/usr/bin/python3" }
Commands == { "echo hi" }
Domains == { AF_UNIX, AF_INET, AF_INET6, AF_NETLINK }
SockTypes == { SOCK_STREAM }

PathFns == { "execve", "execveat", "execl", "execle", "execlp", "execvp", "execvpe" }
ShellFns == { "system", "popen" }

HostCalls ==
         { [fn |-> f, path |-> p, a |-> 0, b |-> 0, c |-> 0] : f \in PathFns, p \in Paths }
    \cup { [fn |-> f, path |-> p, a |-> 0, b |-> 0, c |-> 0] : f \in ShellFns, p \in Commands }
    \cup { [fn |-> "socket", path |-> "", a |-> d, b |-> ty, c |-> 0] :
             d \in Domains, ty \in SockTypes }
    \cup { [fn |-> "connect", path |-> "", a |-> fd, b |-> d, c |-> 0] :
             fd \in {FirstFreeFd}, d \in {AF_UNIX, AF_INET} }

\* Standard input, output and error.
StdFds == 0..STDERR_FILENO

\* ----------------------------------------------------------------- Init
Init ==
    /\ real = [s \in Symbols |-> NULL]
    /\ resolvable \in { Symbols \ m : m \in SUBSET MaybeMissing }
    /\ inherited \in { StdFds, StdFds \ {STDERR_FILENO} }
    /\ pc = [t \in Threads |-> "idle"]
    /\ call = [t \in Threads |-> NoCall]
    /\ idx = [t \in Threads |-> 0]
    /\ tmp = [t \in Threads |-> NULL]
    /\ errno = [t \in Threads |-> 0]
    /\ errno0 = [t \in Threads |-> 0]
    /\ diag = [t \in Threads |-> << >>]
    /\ invoked = [t \in Threads |-> << >>]
    /\ ret = [t \in Threads |-> NoRet]
    /\ tried = {}
    /\ ncalls = 0
    /\ sockets = {}

\* A call through a null function pointer kills the whole process.
Crashed == \E t \in Threads : pc[t] = "segv"

\* ------------------------------------------------------- the host's calls
\* The host process calls a shadowed symbol: the dynamic linker binds the
\* name to this layer, whose first statement is init_real_functions().
HostCall(t, c) ==
    /\ ~Crashed
    /\ pc[t] \in {"idle", "done"}
    /\ ncalls < MaxCalls
    /\ ncalls' = ncalls + 1
    /\ call' = [call EXCEPT ![t] = c]
    /\ pc' = [pc EXCEPT ![t] = "init_check"]
    /\ idx' = [idx EXCEPT ![t] = 1]
    /\ errno0' = [errno0 EXCEPT ![t] = errno[t]]
    /\ diag' = [diag EXCEPT ![t] = << >>]
    /\ invoked' = [invoked EXCEPT ![t] = << >>]
    /\ ret' = [ret EXCEPT ![t] = NoRet]
    /\ UNCHANGED << real, resolvable, inherited, tmp, errno, tried, sockets >>

\* ---------------------------------------------------- init_real_functions
\* dlsym(RTLD_NEXT, name): the same answer every time in one process.
dlsym(name) == IF name \in resolvable THEN RealAddr(name) ELSE NULL

\* Statement i is  if (!real_<checked>) real_<assigned> = dlsym(RTLD_NEXT, "<name>");
InitChecked(i) == InitOrder[i]
\* Faulty variant: the popen statement assigns real_system (a pasted line).
InitAssigned_wrong(i) == IF InitOrder[i] = "popen" THEN "system" ELSE InitOrder[i]
InitAssigned(i) == InitOrder[i]
InitName(i) == InitOrder[i]

\* if (!real_x)
\* Faulty variant: the test is missing, every call looks the symbol up.
NeedsLookup_always(p) == TRUE
NeedsLookup(p) == p = NULL

AfterInit(t, i) ==
    IF i < Len(InitOrder)
    THEN /\ idx' = [idx EXCEPT ![t] = i + 1]
         /\ pc' = [pc EXCEPT ![t] = "init_check"]
    ELSE /\ idx' = [idx EXCEPT ![t] = 0]
         /\ pc' = [pc EXCEPT ![t] = "body"]

\* One  if (!real_x)  test; when it passes, dlsym is called and its result is
\* held by the thread until the store below.
init_real_functions_check(t) ==
    /\ ~Crashed
    /\ pc[t] = "init_check"
    /\ IF NeedsLookup(real[InitChecked(idx[t])])
       THEN /\ tmp' = [tmp EXCEPT ![t] = dlsym(InitName(idx[t]))]
            /\ tried' = tried \cup { InitName(idx[t]) }
            /\ pc' = [pc EXCEPT ![t] = "init_store"]
            /\ UNCHANGED idx
       ELSE /\ AfterInit(t, idx[t])
            /\ UNCHANGED << tmp, tried >>
    /\ UNCHANGED << real, resolvable, inherited, call, errno, errno0, diag, invoked,
                    ret, ncalls, sockets >>

\* real_x = <the dlsym result>
init_real_functions_store(t) ==
    /\ ~Crashed
    /\ pc[t] = "init_store"
    /\ real' = [real EXCEPT ![InitAssigned(idx[t])] = tmp[t]]
    /\ tmp' = [tmp EXCEPT ![t] = NULL]
    /\ AfterInit(t, idx[t])
    /\ UNCHANGED << resolvable, inherited, call, errno, errno0, diag, invoked, ret,
                    tried, ncalls, sockets >>

\* ------------------------------------------------------------- primitives
\* The thread has returned from init_real_functions() inside function fn.
AtBody(t, fn) ==
    /\ ~Crashed
    /\ pc[t] = "body"
    /\ call[t].fn = fn

\* The error of write(2) on descriptor fd, 0 when the kernel takes the bytes:
\* EBADF on a closed descriptor, ENOTCONN on a socket nobody connected (the
\* layer never lets connect through).
WriteError(fd) ==
    IF fd \in inherited THEN 0
    ELSE IF fd \in sockets THEN ENOTCONN
    ELSE EBADF

\* write(STDERR_FILENO, SECURITY_ERROR, sizeof(SECURITY_ERROR) - 1); its
\* result is ignored, and a failed write leaves its error in the caller's
\* errno.
WriteDiagnostic(t) ==
    /\ diag' = [diag EXCEPT ![t] =
                  Append(@, [fd |-> STDERR_FILENO, buf |-> SECURITY_ERROR,
                             count |-> SecurityErrorLen])]
    /\ errno' = IF WriteError(STDERR_FILENO) = 0
                THEN errno
                ELSE [errno EXCEPT ![t] = WriteError(STDERR_FILENO)]

\* write(...); return failure;
Block(t, failure) ==
    /\ WriteDiagnostic(t)
    /\ ret' = [ret EXCEPT ![t] = failure]
    /\ pc' = [pc EXCEPT ![t] = "done"]
    /\ UNCHANGED << real, resolvable, inherited, call, idx, tmp, errno0, invoked,
                    tried, ncalls, sockets >>

\* The arguments handed to the real implementation.
\* Faulty variant: type and protocol change places.
ForwardedArgs_swapped(c) == << c.a, c.c, c.b >>
ForwardedArgs(c) == << c.a, c.b, c.c >>

\* The socket families and types the kernel implements, among those the host
\* asks for: unix sockets, and netlink sockets that are not stream sockets.
KernelHasSocket(domain, type) ==
    \/ domain = AF_UNIX
    \/ domain = AF_NETLINK /\ type # SOCK_STREAM

\* The kernel hands out the lowest descriptor that is not open.
LowestFreeFd ==
    LET open == inherited \cup sockets
    IN  CHOOSE n \in 0..Cardinality(open) :
            n \notin open /\ \A m \in 0..(n - 1) : m \in open

\* What the real implementation of sym does with the forwarded arguments:
\* its return value and the errno it sets (0: errno left alone).  The real
\* socket() returns a new descriptor, or -1 with ESOCKTNOSUPPORT.
RealOutcome(sym, args) ==
    IF sym # "socket" THEN [ret |-> 0, err |-> 0]
    ELSE IF KernelHasSocket(args[1], args[2])
         THEN [ret |-> LowestFreeFd, err |-> 0]
         ELSE [ret |-> -1, err |-> ESOCKTNOSUPPORT]

\* return real_<sym>(args): the pointer is read and called.  A null pointer
\* faults.  The hook returns whatever the real function returned and leaves
\* errno as the real function left it.
CallReal(t, sym) ==
    LET f == real[sym]
        out == RealOutcome(sym, ForwardedArgs(call[t]))
        entry(r) == [sym |-> sym, target |-> f,
                     args |-> ForwardedArgs(call[t]), result |-> r]
    IN  IF f = NULL
        THEN /\ invoked' = [invoked EXCEPT ![t] = Append(@, entry(NoRet))]
             /\ pc' = [pc EXCEPT ![t] = "segv"]
             /\ UNCHANGED << real, resolvable, inherited, call, idx, tmp, errno, errno0,
                             diag, ret, tried, ncalls, sockets >>
        ELSE /\ invoked' = [invoked EXCEPT ![t] = Append(@, entry(out.ret))]
             /\ ret' = [ret EXCEPT ![t] = out.ret]
             /\ errno' = IF out.err = 0 THEN errno
                         ELSE [errno EXCEPT ![t] = out.err]
             /\ sockets' = IF sym = "socket" /\ out.ret >= 0
                           THEN sockets \cup {out.ret} ELSE sockets
             /\ pc' = [pc EXCEPT ![t] = "done"]
             /\ UNCHANGED << real, resolvable, inherited, call, idx, tmp, errno0,
                             diag, tried, ncalls >>

\* ------------------------------------------------- process execution hooks
\* Faulty variant: execve is passed on to the real implementation.
execve_forwarding(t) == AtBody(t, "execve") /\ CallReal(t, "execve")
execve(t) == AtBody(t, "execve") /\ Block(t, -1)

execveat(t) == AtBody(t, "execveat") /\ Block(t, -1)

execl(t) == AtBody(t, "execl") /\ Block(t, -1)

execle(t) == AtBody(t, "execle") /\ Block(t, -1)

execlp(t) == AtBody(t, "execlp") /\ Block(t, -1)

execvp(t) == AtBody(t, "execvp") /\ Block(t, -1)

execvpe(t) == AtBody(t, "execvpe") /\ Block(t, -1)

system(t) == AtBody(t, "system") /\ Block(t, -1)

popen(t) == AtBody(t, "popen") /\ Block(t, NULL)

\* ----------------------------------------------------------- network hooks
\* domain == AF_INET || domain == AF_INET6
\* Faulty variant: AF_INET6 is forgotten.
IsNetworkFamily_v4only(domain) == domain = AF_INET
IsNetworkFamily(domain) == domain = AF_INET \/ domain = AF_INET6

\* if (real_socket) ... ; return -1;   (no diagnostic on this path)
socket_tail(t) ==
    IF real["socket"] # NULL
    THEN /\ pc' = [pc EXCEPT ![t] = "forward"]
         /\ UNCHANGED << real, resolvable, inherited, call, idx, tmp, errno, errno0,
                         diag, invoked, ret, tried, ncalls, sockets >>
    ELSE /\ ret' = [ret EXCEPT ![t] = -1]
         /\ pc' = [pc EXCEPT ![t] = "done"]
         /\ UNCHANGED << real, resolvable, inherited, call, idx, tmp, errno, errno0,
                         diag, invoked, tried, ncalls, sockets >>

\* Faulty variant: the  if (real_socket)  test is missing.
socket_unchecked(t) ==
    /\ AtBody(t, "socket")
    /\ IF IsNetworkFamily(call[t].a)
       THEN Block(t, -1)
       ELSE /\ pc' = [pc EXCEPT ![t] = "forward"]
            /\ UNCHANGED << real, resolvable, inherited, call, idx, tmp, errno, errno0,
                            diag, invoked, ret, tried, ncalls, sockets >>

socket(t) ==
    /\ AtBody(t, "socket")
    /\ IF IsNetworkFamily(call[t].a)
       THEN Block(t, -1)
       ELSE socket_tail(t)

\* return real_socket(domain, type, protocol): the pointer is read again.
socket_forward(t) ==
    /\ ~Crashed
    /\ pc[t] = "forward"
    /\ call[t].fn = "socket"
    /\ CallReal(t, "socket")

\* Faulty variant: connect is passed on to the real implementation.
connect_forwarding(t) == AtBody(t, "connect") /\ CallReal(t, "connect")
connect(t) == AtBody(t, "connect") /\ Block(t, -1)

\* ------------------------------------------------------------------- Next
Step(t) ==
    \/ \E c \in HostCalls : HostCall(t, c)
    \/ init_real_functions_check(t)
    \/ init_real_functions_store(t)
    \/ execve(t)
    \/ execveat(t)
    \/ execl(t)
    \/ execle(t)
    \/ execlp(t)
    \/ execvp(t)
    \/ execvpe(t)
    \/ system(t)
    \/ popen(t)
    \/ socket(t)
    \/ socket_forward(t)
    \/ connect(t)

Next == \E t \in Threads : Step(t)

Spec == Init /\ [][Next]_vars

\* A sequential run: only one thread of the host ever calls into the layer.
NextSeq == Step(1)

SpecSeq == Init /\ [][NextSeq]_vars

\* ----------------------------------------------------------- observations
Done(t) == pc[t] = "done"

\* The failure result of an entry point: NULL for popen, -1 for the others.
Failure(fn) == IF fn = "popen" THEN NULL ELSE -1

NetworkCall(t) == call[t].fn = "socket" /\ call[t].a \in {AF_INET, AF_INET6}
LocalSocketCall(t) == call[t].fn = "socket" /\ call[t].a \notin {AF_INET, AF_INET6}

\* The one write every policy denial issues.
TheDiagnostic ==
    [fd |-> STDERR_FILENO, buf |-> SECURITY_ERROR, count |-> SecurityErrorLen]

\* Thread t takes the step that calls dlsym for symbol InitName(idx[t]).
LookupStep(t) == pc[t] = "init_check" /\ pc'[t] = "init_store"

\* Thread t passes an  if (!real_x)  test without calling dlsym.
SkipStep(t) ==
    /\ pc[t] = "init_check"
    /\ \/ pc'[t] = "body"
       \/ pc'[t] = "init_check" /\ idx'[t] # idx[t]

\* ------------------------------------------------------------------ claims

\* C1: a socket() call whose domain is AF_INET or AF_INET6 never reaches the
\* real socket implementation (nothing is invoked, it never gets to the
\* forwarding statement) and returns -1, in every interleaving.
C1_NetworkSocketDenied ==
    \A t \in Threads :
        NetworkCall(t) =>
            /\ invoked[t] = << >>
            /\ pc[t] \notin {"forward", "segv"}
            /\ (Done(t) => ret[t] = -1)

C1_Witness ==
    \E t \in Threads, u \in Threads :
        /\ t # u
        /\ Done(t) /\ call[t].fn = "socket" /\ call[t].a = AF_INET6 /\ ret[t] = -1
        /\ Done(u) /\ call[u].fn = "socket" /\ call[u].a = AF_INET /\ ret[u] = -1
        /\ real["socket"] # NULL

\* C2: a connect() call never invokes the real connect and returns -1, for
\* every descriptor and address family, after any earlier calls.
C2_ConnectDenied ==
    \A t \in Threads :
        call[t].fn = "connect" =>
            /\ invoked[t] = << >>
            /\ pc[t] \notin {"forward", "segv"}
            /\ (Done(t) => ret[t] = -1)

\* connect() on a unix socket that an allowed socket() call handed out.
C2_Witness ==
    \E t \in Threads, u \in Threads :
        /\ Done(u) /\ call[u].fn = "socket" /\ call[u].a = AF_UNIX /\ ret[u] = FirstFreeFd
        /\ Done(t) /\ call[t].fn = "connect" /\ call[t].a = FirstFreeFd
        /\ call[t].b = AF_UNIX /\ ret[t] = -1
        /\ real["connect"] # NULL

\* C3: no exec-family entry point, nor system nor popen, ever invokes a real
\* implementation; each returns -1 (popen: NULL).
C3_ExecAlwaysDenied ==
    \A t \in Threads :
        call[t].fn \in PathFns \cup ShellFns =>
            /\ invoked[t] = << >>
            /\ pc[t] \notin {"forward", "segv"}
            /\ (Done(t) => ret[t] = Failure(call[t].fn))

C3_Witness ==
    \E t \in Threads, u \in Threads :
        /\ Done(t) /\ call[t].fn = "popen" /\ ret[t] = NULL
        /\ Done(u) /\ call[u].fn = "execve" /\ call[u].path = "/usr/bin/python3"
        /\ ret[u] = -1
        /\ real["execve"] # NULL /\ real["popen"] # NULL

\* C4 as stated: every socket() call with a domain other than AF_INET and
\* AF_INET6 forwards to the real socket exactly once with the same three
\* arguments, returns what it returned and writes no diagnostic.
C4_LocalSocketAlwaysForwarded ==
    \A t \in Threads :
        (Done(t) /\ LocalSocketCall(t)) =>
            /\ Len(invoked[t]) = 1
            /\ invoked[t][1].sym = "socket"
            /\ invoked[t][1].args = << call[t].a, call[t].b, call[t].c >>
            /\ ret[t] = invoked[t][1].result
            /\ diag[t] = << >>

\* C4 amended: the same, for a process in which the real socket
\* implementation can be resolved; otherwise the call returns -1 without
\* forwarding.
C4_LocalSocketForwardedWhenResolved ==
    \A t \in Threads :
        LocalSocketCall(t) =>
            /\ pc[t] # "segv"
            /\ (Done(t) /\ "socket" \in resolvable =>
                    /\ Len(invoked[t]) = 1
                    /\ invoked[t][1].sym = "socket"
                    /\ invoked[t][1].target = RealAddr("socket")
                    /\ invoked[t][1].args = << call[t].a, call[t].b, call[t].c >>
                    /\ ret[t] = invoked[t][1].result
                    /\ diag[t] = << >>)
            /\ (Done(t) /\ "socket" \notin resolvable =>
                    invoked[t] = << >> /\ ret[t] = -1)

\* A forwarded call that succeeded and one whose real call failed.
C4_Witness ==
    \E t \in Threads, u \in Threads :
        /\ Done(t) /\ call[t].fn = "socket" /\ call[t].a = AF_UNIX
        /\ ret[t] = FirstFreeFd /\ Len(invoked[t]) = 1
        /\ Done(u) /\ call[u].fn = "socket" /\ call[u].a = AF_NETLINK
        /\ ret[u] = -1 /\ errno[u] = ESOCKTNOSUPPORT /\ Len(invoked[u]) = 1

\* C5: no entry point ever calls through a null function pointer; when the
\* real socket cannot be resolved, socket() with a non-network domain
\* returns plain -1, forwards nothing and leaves errno as it was.
C5_FailClosed ==
    \A t \in Threads :
        /\ pc[t] # "segv"
        /\ \A i \in DOMAIN invoked[t] : invoked[t][i].target # NULL
        /\ (LocalSocketCall(t) /\ "socket" \notin resolvable =>
                /\ invoked[t] = << >>
                /\ pc[t] # "forward"
                /\ (Done(t) => ret[t] = -1 /\ errno[t] = errno0[t]))

C5_Witness ==
    \E t \in Threads :
        /\ Done(t) /\ call[t].fn = "socket" /\ call[t].a = AF_UNIX
        /\ "socket" \notin resolvable
        /\ ret[t] = -1 /\ invoked[t] = << >>

\* C6: every call that returned failure without invoking a real function
\* issued the fixed diagnostic write exactly once, and every forwarded call
\* issued none.
C6_EveryDenialWritesOnce ==
    \A t \in Threads :
        Done(t) =>
            IF invoked[t] = << >>
            THEN diag[t] = << TheDiagnostic >>
            ELSE diag[t] = << >>

\* C7: after a denied call errno is what it was before the call, and the
\* return value is -1 (NULL for popen).
C7_ErrnoPreservedOnDenial ==
    \A t \in Threads :
        (Done(t) /\ invoked[t] = << >>) =>
            /\ ret[t] = Failure(call[t].fn)
            /\ errno[t] = errno0[t]

\* C8: under any interleaving a function pointer, once non-null, keeps its
\* value, and every pointer is always either null or the one address of its
\* own symbol, so whatever a thread reads, and reads again, is that address.
C8_BindingStable ==
    [][ \A s \in Symbols :
            /\ (real[s] # NULL => real'[s] = real[s])
            /\ real'[s] \in {NULL, RealAddr(s)} ]_vars

\* Concurrent first use: a thread is about to store a redundant lookup result
\* into a pointer another thread has already set.
C8_Witness ==
    \E t \in Threads :
        /\ pc[t] = "init_store"
        /\ tmp[t] # NULL
        /\ real[InitOrder[idx[t]]] = tmp[t]

\* C9: once a first intercepted call has returned, the pointer of every
\* shadowed symbol that can be resolved is non-null.
C9_AllResolvedAfterFirstCall ==
    (\E t \in Threads : Done(t)) =>
        \A s \in Symbols : s \in resolvable => real[s] # NULL

\* C10 as stated: in a sequential run dlsym is called at most once for a
\* symbol, so a failed resolution is never retried.
C10_LookupAtMostOnce ==
    [][ \A t \in Threads : LookupStep(t) => InitOrder[idx[t]] \notin tried ]_vars

\* C10 amended: in a sequential run dlsym is called again only for a symbol
\* whose resolution failed: a successful lookup is done once and later calls
\* use the stored address, while a failed lookup is repeated by every call.
C10_OnlyFailedLookupsRepeat ==
    [][ \A t \in Threads :
            /\ LookupStep(t) =>
                   \/ InitOrder[idx[t]] \notin tried
                   \/ InitOrder[idx[t]] \notin resolvable
            /\ SkipStep(t) =>
                   /\ InitOrder[idx[t]] \in tried \cap resolvable
                   /\ real[InitOrder[idx[t]]] = RealAddr(InitOrder[idx[t]]) ]_vars

\* The second call of a run repeats the failed lookup of socket, having
\* skipped the lookups that succeeded.
C10_Witness ==
    /\ ncalls = 2
    /\ pc[1] = "init_store"
    /\ InitOrder[idx[1]] = "socket"
    /\ tmp[1] = NULL
    /\ real["execve"] # NULL /\ real["popen"] # NULL

====
